---- MODULE Spec2Model ----
(***************************************************************************)
(* goodmetrics_rs: the metrics factory (scope guard, behaviour flags,      *)
(* emit) and the aggregating sink (bounded channel, aggregation worker,    *)
(* statistic sets, 2-significant-figure histograms).                       *)
(*                                                                         *)
(* Six specifications share the module's variables:                        *)
(*   SpecBucket  the pure function bucket_10_2_sigfigs on a bounded range  *)
(*   SpecFold    direct calls of update_metrics_map, as test_aggregation   *)
(*   SpecScope   MetricsFactory scopes emitting into an AggregatingSink    *)
(*   SpecSink    producers calling accept while the worker drains          *)
(*   SpecLock    the worker folding under the map's mutex, beside readers  *)
(*   SpecWorker  the worker thread's life, with fair scheduling            *)
(***************************************************************************)
EXTENDS Integers, Sequences, FiniteSets, TLC

VARIABLES
    overflow_checks,            \* build profile: TRUE = debug (overflow panics), FALSE = release (wraps)
    bucket_in,                  \* SpecBucket: the argument of bucket_10_2_sigfigs
    bucket_out,                 \* SpecBucket: its outcome, NotCalled before the call
    map,                        \* AggregatingSink.map: metric name -> position -> measurement name -> Aggregation
    poisoned,                   \* the map's Mutex is poisoned (a holder panicked)
    error_log,                  \* number of log::error! records written by the sink
    fold_log,                   \* history: the update_metrics_map calls made so far, in order
    default_metrics_behavior,   \* MetricsFactory.default_metrics_behavior
    scopes,                     \* the scope guards (ReturningRef) handed out, by scope id
    accept_log,                 \* history: the objects passed to Sink::accept, in order
    channel,                    \* the sync_channel's queue (sender -> receiver)
    worker,                     \* run_aggregator_forever: its position and the object it holds
    dropped,                    \* history: ids of the objects accept dropped on saturation
    producers,                  \* the producers (factories, threads) that still hold the sink and may call accept
    senders,                    \* the channel's live Sender handles: the sink's own field
    factory_behaviors,          \* history: the behaviors list the factory was constructed with
    lock,                       \* the holders of the map's Mutex
    folding,                    \* the update_metrics_map call in progress: what it has still to fold
    readers                     \* the threads that read the map under its lock

vars ==
    << overflow_checks, bucket_in, bucket_out, map, poisoned, error_log, fold_log,
       default_metrics_behavior, scopes, accept_log, channel, worker, dropped, producers, senders, factory_behaviors, lock, folding, readers >>

----------------------------------------------------------------------------
(* Bounds of the model *)

\* SpecBucket checks bucket_10_2_sigfigs on -MaxBucketInput..MaxBucketInput
MaxBucketInput == 8802
\* SpecFold makes at most this many update_metrics_map calls
MaxFolds == 3
\* SpecScope opens at most this many scopes
MaxScopes == 2
\* start_time.elapsed() reads 0..MaxElapsed nanoseconds
MaxElapsed == 0
\* SpecSink makes at most this many accept calls
MaxAccepts == 4
\* The bound given to AggregatingSink::new_with_bound
ChannelBound == 2
\* SpecWorker starts with this many producers holding the sink
MaxProducers == 2
\* SpecLock has this many threads reading the map
MaxReaders == 1

----------------------------------------------------------------------------
(* Integer limits *)

\* i32::MIN, what `-inf as i32` saturates to
I32_MIN == -2147483647 - 1
\* i32::MAX
I32_MAX == 2147483647
\* Stand-ins for i64::MAX and i64::MIN: TLC's integers end at 2^31, so the
\* model's i64 is 16 bits wide. Every sample the model buckets lies strictly
\* between the two, and a sum of observations can leave the range, as it can
\* in the code.
I64_MAX == 32767
I64_MIN == -32767 - 1
\* A result reduced to the i64 range, as arithmetic without overflow checks leaves it
WrapI64(x) == ((x - I64_MIN) % (I64_MAX - I64_MIN + 1)) + I64_MIN

Abs(x) == IF x < 0 THEN -x ELSE x
Min2(a, b) == IF a <= b THEN a ELSE b
Max2(a, b) == IF a >= b THEN a ELSE b
\* signum that loses the sign of a negative value
Signum_unsigned(x) == IF x = 0 THEN 0 ELSE 1
Signum(x) == IF x > 0 THEN 1 ELSE IF x < 0 THEN -1 ELSE 0

RECURSIVE Pow10(_)
Pow10(k) == IF k = 0 THEN 1 ELSE 10 * Pow10(k - 1)

\* (x as f64).log10().ceil() for an integer x >= 1: the least k with 10^k >= x.
\* In the model's range the float logarithm is off an integer by far more than
\* its rounding error, except at exact powers of ten, where either rounding
\* gives the same bucket.
RECURSIVE CeilLog10From(_, _)
CeilLog10From(x, k) == IF Pow10(k) >= x THEN k ELSE CeilLog10From(x, k + 1)
CeilLog10(x) == CeilLog10From(x, 0)

\* CeilDiv with the quotient truncated instead of rounded up
CeilDiv_truncating(a, b) == a \div b

\* (a as f64 / b as f64).ceil() for integers a >= 0, b >= 1
CeilDiv(a, b) == IF a % b = 0 THEN a \div b ELSE (a \div b) + 1

----------------------------------------------------------------------------
(* Base 10 significant-figures bucketing: bucket_10 / bucket_10_2_sigfigs *)

\* The largest exponent for which 10_f64.powi(power) is finite.
F64_MAX_10_EXP == 308

\* The outcome of one call: it returns `value`, or panics; `overflow` records
\* that the i32 subtraction in the power computation overflowed.
BucketOk(v, ovf) == [panic |-> FALSE, overflow |-> ovf, value |-> v]
BucketPanic == [panic |-> TRUE, overflow |-> TRUE, value |-> 0]

\* ((value.abs() as f64).log10().ceil() as i32): log10(0) is -inf, ceil keeps
\* it, and the cast saturates to i32::MIN.
Log10CeilAsI32(value) ==
    IF value = 0 THEN I32_MIN ELSE CeilLog10(Abs(value))

\* value.signum() * (value.abs() as f64 / magnitude).ceil() as i64 * magnitude as i64
\* for the power the first line of bucket_10 computed. An infinite magnitude
\* (power > 308) makes the quotient 0.0 and `magnitude as i64` i64::MAX.
BucketValue(value, power) ==
    IF power > F64_MAX_10_EXP
    THEN Signum(value) * 0 * I64_MAX
    ELSE Signum(value) * CeilDiv(Abs(value), Pow10(power)) * Pow10(power)

bucket_10(FIGURES, value) ==
    LET l == Log10CeilAsI32(value)
        \* l - FIGURES as i32 leaves the i32 range
        ovf == l < I32_MIN + FIGURES
        \* the wrapped difference l - FIGURES + 2^32 of a release build
        diff == IF ovf THEN I32_MAX - ((FIGURES - 1) - (l - I32_MIN)) ELSE l - FIGURES
        power == Max2(diff, 0)
    IN  IF ovf /\ overflow_checks
        THEN BucketPanic
        ELSE BucketOk(BucketValue(value, power), ovf)

bucket_10_2_sigfigs(value) == bucket_10(2, value)

----------------------------------------------------------------------------
(* Measurements and aggregations *)

Observation(v) == [kind |-> "Observation", collection |-> FALSE, value |-> v, values |-> <<>>]
\* Distribution::I64 / I32 / U64 / U32: one sample, cast to i64
DistributionScalar(v) == [kind |-> "Distribution", collection |-> FALSE, value |-> v, values |-> <<>>]
\* Distribution::Collection
DistributionCollection(s) == [kind |-> "Distribution", collection |-> TRUE, value |-> 0, values |-> s]

EmptyFcn == [x \in {} |-> 0]

\* StatisticSet::default()
StatisticSetDefault ==
    [kind |-> "StatisticSet", min |-> I64_MAX, max |-> I64_MIN, sum |-> 0, count |-> 0,
     buckets |-> EmptyFcn]

\* Aggregation::Histogram(Histogram::default())
HistogramDefault ==
    [kind |-> "Histogram", min |-> 0, max |-> 0, sum |-> 0, count |-> 0, buckets |-> EmptyFcn]

\* A map holding k alone: the other keys are lost
Put_alone(f, k, v) == [x \in {k} |-> v]

\* f with key k set to v (HashMap::insert, Entry::or_insert)
Put(f, k, v) == [x \in DOMAIN f \cup {k} |-> IF x = k THEN v ELSE f[x]]

\* StatisticSet::accumulate with the sum assigned instead of added to
StatisticSet_accumulate_assigning(s, v) ==
    [s EXCEPT !.min = Min2(v, s.min), !.max = Max2(v, s.max), !.sum = v,
              !.count = s.count + 1]

\* self.sum += v leaves the i64 range
SumOverflows(s, v) == s.sum + v > I64_MAX \/ s.sum + v < I64_MIN

\* StatisticSet::accumulate. When the sum overflows, a build with overflow
\* checks panics at `self.sum += v`, min and max already assigned, and a
\* build without them wraps the sum.
StatisticSet_accumulate(s, v) ==
    IF SumOverflows(s, v) /\ overflow_checks
    THEN [s EXCEPT !.min = Min2(v, s.min), !.max = Max2(v, s.max)]
    ELSE [s EXCEPT !.min = Min2(v, s.min), !.max = Max2(v, s.max),
                   !.sum = WrapI64(s.sum + v), !.count = s.count + 1]

\* histogram.entry(bucket).and_modify(|count| *count += 1).or_insert(1)
HistogramIncrement(h, b) ==
    [h EXCEPT !.buckets = Put(h.buckets, b, IF b \in DOMAIN h.buckets THEN h.buckets[b] + 1 ELSE 1)]

\* One sample of a distribution: bucket it, then count it. A panic of the
\* bucketing leaves the histogram as it is.
HistogramSample(acc, i) ==
    IF acc.panic THEN acc
    ELSE LET b == bucket_10_2_sigfigs(i)
         IN  IF b.panic THEN [acc EXCEPT !.panic = TRUE]
             ELSE [acc EXCEPT !.h = HistogramIncrement(acc.h, b.value)]

RECURSIVE HistogramSamples(_, _)
HistogramSamples(acc, s) ==
    IF s = <<>> THEN acc ELSE HistogramSamples(HistogramSample(acc, Head(s)), Tail(s))

\* The state the fold of one metrics object threads through its measurements:
\* the position's measurement map, the errors logged, whether it panicked.
\* accumulate_distribution
accumulate_distribution(f, name, distribution) ==
    LET mm == IF name \in DOMAIN f.mm THEN f.mm ELSE Put(f.mm, name, HistogramDefault)
    IN  IF mm[name].kind = "StatisticSet"
        THEN [f EXCEPT !.errors = f.errors + 1]
        ELSE LET samples == IF distribution.collection THEN distribution.values
                            ELSE <<distribution.value>>
                 r == HistogramSamples([h |-> mm[name], panic |-> FALSE], samples)
             IN  [f EXCEPT !.mm = Put(mm, name, r.h), !.panic = r.panic]

\* accumulate_statisticset
accumulate_statisticset(f, name, observation) ==
    LET mm == IF name \in DOMAIN f.mm THEN f.mm ELSE Put(f.mm, name, StatisticSetDefault)
    IN  IF mm[name].kind = "StatisticSet"
        THEN [f EXCEPT !.mm = Put(mm, name, StatisticSet_accumulate(mm[name], observation.value)),
                       !.panic = SumOverflows(mm[name], observation.value) /\ overflow_checks]
        ELSE [f EXCEPT !.errors = f.errors + 1]

----------------------------------------------------------------------------
(* AggregatingSink::update_metrics_map *)

\* Lexicographic order of the names the model uses, as Name's Ord gives it.
SortedNames == <<"a", "b">>
NameRank(n) == CHOOSE i \in 1..Len(SortedNames) : SortedNames[i] = n

\* The orders in which HashMap::drain may yield the keys of f: any order.
DrainOrders(f) ==
    { s \in [1..Cardinality(DOMAIN f) -> DOMAIN f] : \A i, j \in DOMAIN s : s[i] = s[j] => i = j }

\* BTreeMap::insert into a map held as its key-sorted sequence of (key, value) pairs
BTreeMap_insert(t, kv) ==
    LET others == SelectSeq(t, LAMBDA e : e[1] # kv[1])
        before == SelectSeq(others, LAMBDA e : NameRank(e[1]) < NameRank(kv[1]))
        after == SelectSeq(others, LAMBDA e : NameRank(e[1]) > NameRank(kv[1]))
    IN  before \o <<kv>> \o after

RECURSIVE BTreeMap_collect(_, _)
BTreeMap_collect(t, pairs) ==
    IF pairs = <<>> THEN t ELSE BTreeMap_collect(BTreeMap_insert(t, Head(pairs)), Tail(pairs))

\* sunk_metrics.dimensions.drain(), yielding the pairs in the order dim_order
DrainedDimensions(dimensions, dim_order) ==
    [i \in 1..Len(dim_order) |-> <<dim_order[i], dimensions[dim_order[i]]>>]

\* The position collected into a Vec: the pairs in the order drained, unsorted
DimensionPosition_unsorted(dimensions, dim_order) ==
    DrainedDimensions(dimensions, dim_order)

\* let position: DimensionPosition = sunk_metrics.dimensions.drain().collect()
DimensionPosition(dimensions, dim_order) ==
    BTreeMap_collect(<<>>, DrainedDimensions(dimensions, dim_order))

\* sunk_metrics.measurements.drain().for_each(...), in the order meas_order;
\* a panic ends the iteration.
RECURSIVE FoldMeasurements(_, _, _)
FoldMeasurements(f, measurements, meas_order) ==
    IF meas_order = <<>> \/ f.panic THEN f
    ELSE LET name == Head(meas_order)
             m == measurements[name]
             g == IF m.kind = "Observation"
                  THEN accumulate_statisticset(f, name, m)
                  ELSE accumulate_distribution(f, name, m)
         IN  FoldMeasurements(g, measurements, Tail(meas_order))

\* One call on the sink state s = [map, poisoned, errors]; the result adds
\* `panicked`: the call unwound (a poisoned lock, or a panic while folding,
\* which poisons the lock and leaves what was folded so far in the map).
update_metrics_map(s, sunk_metrics, dim_order, meas_order) ==
    IF s.poisoned
    THEN [map |-> s.map, poisoned |-> TRUE, errors |-> s.errors, panicked |-> TRUE]
    ELSE LET name == sunk_metrics.metrics_name
             dimensioned_measurements_map ==
                 IF name \in DOMAIN s.map THEN s.map[name] ELSE EmptyFcn
             position == DimensionPosition(sunk_metrics.dimensions, dim_order)
             measurements_map ==
                 IF position \in DOMAIN dimensioned_measurements_map
                 THEN dimensioned_measurements_map[position] ELSE EmptyFcn
             f == FoldMeasurements([mm |-> measurements_map, errors |-> s.errors, panic |-> FALSE],
                                   sunk_metrics.measurements, meas_order)
         IN  [map |-> Put(s.map, name, Put(dimensioned_measurements_map, position, f.mm)),
              poisoned |-> f.panic, errors |-> f.errors, panicked |-> f.panic]

SinkState == [map |-> map, poisoned |-> poisoned, errors |-> error_log]

----------------------------------------------------------------------------
(* Metrics objects *)

\* A metrics object: the fields of Metrics the factory and the sink use.
Metrics(id, name, behaviors, dimensions, measurements) ==
    [id |-> id, metrics_name |-> name, behaviors |-> behaviors,
     dimensions |-> dimensions, measurements |-> measurements]

\* No object: what the worker holds between two objects, what a live guard has recorded
NoMetrics == Metrics(0, "", 0, EmptyFcn, EmptyFcn)

\* The dimension maps and measurement maps SpecFold's callers build
FoldDimensions ==
    { "a" :> "dimension",
      ("a" :> "dimension") @@ ("b" :> "x"),
      "a" :> "x" }

FoldMeasurementMaps ==
    { "v" :> Observation(22),
      "v" :> Observation(20),
      ("v" :> DistributionScalar(101)) @@ ("u" :> Observation(-11)),
      ("v" :> Observation(20)) @@ ("w" :> DistributionCollection(<<109, 0>>)),
      "v" :> Observation(I64_MAX),
      EmptyFcn }

\* get_metrics(...) of the tests, and its like: the objects handed to update_metrics_map
FoldInputs ==
    { Metrics(0, "test", 0, d, m) : d \in FoldDimensions, m \in FoldMeasurementMaps }
    \cup { Metrics(0, "other", 0, "a" :> "dimension", m) :
             m \in { ("v" :> DistributionScalar(101)) @@ ("u" :> Observation(-11)) } }

----------------------------------------------------------------------------
(* MetricsBehavior and the Metrics object's methods *)

\* The behaviour bits (#[repr(u32)] enum MetricsBehavior)
MetricsBehavior_Default == 0
MetricsBehavior_SuppressTotalTime == 1
MetricsBehavior_Suppress == 16

RECURSIVE BitOr(_, _)
BitOr(a, b) ==
    IF a = 0 THEN b ELSE IF b = 0 THEN a
    ELSE (IF a % 2 = 1 \/ b % 2 = 1 THEN 1 ELSE 0) + 2 * BitOr(a \div 2, b \div 2)

RECURSIVE BitAnd(_, _)
BitAnd(a, b) ==
    IF a = 0 \/ b = 0 THEN 0
    ELSE (IF a % 2 = 1 /\ b % 2 = 1 THEN 1 ELSE 0) + 2 * BitAnd(a \div 2, b \div 2)

\* MetricsAllocator::new_metrics: a fresh object, no dimensions, no
\* measurements, zero behaviour; `id` tells the objects apart
new_metrics(id, metrics_name) == Metrics(id, metrics_name, 0, EmptyFcn, EmptyFcn)

set_raw_behavior(m, mask) == [m EXCEPT !.behaviors = mask]
add_behavior(m, behavior) == [m EXCEPT !.behaviors = BitOr(m.behaviors, behavior)]
has_behavior(m, behavior) == BitAnd(m.behaviors, behavior) # 0

\* Metrics::dimension: upsert
Metrics_dimension(m, name, value) == [m EXCEPT !.dimensions = Put(m.dimensions, name, value)]
\* Metrics::measurement: set or replace the Observation
Metrics_measurement(m, name, value) ==
    [m EXCEPT !.measurements = Put(m.measurements, name, Observation(value))]
\* Metrics::distribution: append to the Distribution of that name, or create it
Metrics_distribution(m, name, value) ==
    LET old == IF name \in DOMAIN m.measurements /\ m.measurements[name].kind = "Distribution"
               THEN (IF m.measurements[name].collection THEN m.measurements[name].values
                     ELSE <<m.measurements[name].value>>)
               ELSE <<>>
    IN  [m EXCEPT !.measurements =
            Put(m.measurements, name,
                IF old = <<>> THEN DistributionScalar(value)
                ELSE DistributionCollection(Append(old, value)))]

----------------------------------------------------------------------------
(* Sink::accept for AggregatingSink *)

\* The state of the sink and its callers that emit and accept act on
World == [scopes |-> scopes, channel |-> channel, accept_log |-> accept_log,
          dropped |-> dropped, errors |-> error_log]

\* accept with a blocking-free but unbounded send: the object is queued even
\* when the channel holds `bound` objects
AggregatingSink_accept_unbounded(w, metrics_ref) ==
    [w EXCEPT !.accept_log = Append(w.accept_log, metrics_ref),
              !.channel = Append(w.channel, metrics_ref)]

\* accept that logs the drop on a full channel and queues the object all the same
AggregatingSink_accept_requeueing(w, metrics_ref) ==
    IF Len(w.channel) < ChannelBound
    THEN [w EXCEPT !.accept_log = Append(w.accept_log, metrics_ref),
                   !.channel = Append(w.channel, metrics_ref)]
    ELSE [w EXCEPT !.accept_log = Append(w.accept_log, metrics_ref),
                   !.channel = Append(w.channel, metrics_ref),
                   !.errors = w.errors + 1,
                   !.dropped = w.dropped \cup {metrics_ref.id}]

\* try_send: queued when the channel has room, else dropped with an error logged
AggregatingSink_accept(w, metrics_ref) ==
    IF Len(w.channel) < ChannelBound
    THEN [w EXCEPT !.accept_log = Append(w.accept_log, metrics_ref),
                   !.channel = Append(w.channel, metrics_ref)]
    ELSE [w EXCEPT !.accept_log = Append(w.accept_log, metrics_ref),
                   !.errors = w.errors + 1,
                   !.dropped = w.dropped \cup {metrics_ref.id}]

----------------------------------------------------------------------------
(* MetricsFactory: RecordingScope and ReturnTarget *)

\* new_with_allocator: behaviors.iter().fold(0, |i, behavior| i | *behavior as u32)
RECURSIVE FoldBehaviors(_, _)
FoldBehaviors(i, behaviors) ==
    IF behaviors = <<>> THEN i ELSE FoldBehaviors(BitOr(i, Head(behaviors)), Tail(behaviors))

new_with_allocator(behaviors) == FoldBehaviors(0, behaviors)

\* create_new_raw_metrics without set_raw_behavior: the defaults are not applied
create_new_raw_metrics_unset(id, metrics_name) == new_metrics(id, metrics_name)

create_new_raw_metrics(id, metrics_name) ==
    set_raw_behavior(new_metrics(id, metrics_name), default_metrics_behavior)

\* ReturningRef::new(self, referent): a live guard owning the object.
\* History kept with it: `returned` and `emitted` count the return_referent
\* and emit calls made with its object, `recorded` is the object as the
\* caller left it when the guard was dropped, and after emit `m` is the
\* object as emit left it.
ReturningRef_new(referent) ==
    [st |-> "live", m |-> referent, exit |-> "none", returned |-> 0, emitted |-> 0,
     recorded |-> NoMetrics]

record_scope(id, scope_name) == ReturningRef_new(create_new_raw_metrics(id, scope_name))

record_scope_with_behavior(id, scope_name, behavior) ==
    ReturningRef_new(add_behavior(create_new_raw_metrics(id, scope_name), behavior))

\* History: one more emit call ended, leaving the object as `metrics`
Emitted(w, metrics) ==
    [w EXCEPT !.scopes[metrics.id].emitted = w.scopes[metrics.id].emitted + 1,
              !.scopes[metrics.id].m = metrics]

\* emit without the Suppress check
emit_ignoring_suppress(w, metrics, elapsed) ==
    LET timed == IF ~has_behavior(metrics, MetricsBehavior_SuppressTotalTime)
                 THEN Metrics_distribution(metrics, "totaltime", elapsed) ELSE metrics
    IN  AggregatingSink_accept(Emitted(w, timed), timed)

\* emit without the SuppressTotalTime check: the total time is always recorded
emit_always_timing(w, metrics, elapsed) ==
    IF has_behavior(metrics, MetricsBehavior_Suppress)
    THEN Emitted(w, metrics)
    ELSE LET timed == Metrics_distribution(metrics, "totaltime", elapsed)
         IN  AggregatingSink_accept(Emitted(w, timed), timed)

\* RecordingScope::emit; `elapsed` is what metrics.start_time.elapsed() reads
emit(w, metrics, elapsed) ==
    IF has_behavior(metrics, MetricsBehavior_Suppress)
    THEN Emitted(w, metrics)
    ELSE LET timed == IF ~has_behavior(metrics, MetricsBehavior_SuppressTotalTime)
                      THEN Metrics_distribution(metrics, "totaltime", elapsed) ELSE metrics
         IN  AggregatingSink_accept(Emitted(w, timed), timed)

\* History: one more return_referent call
Returned(w, to_return) ==
    [w EXCEPT !.scopes[to_return.id].returned = w.scopes[to_return.id].returned + 1]

\* return_referent emitting the referent twice
return_referent_twice(w, to_return, elapsed) ==
    emit(emit(Returned(w, to_return), to_return, elapsed), to_return, elapsed)

\* return_referent dropping the referent without emitting it
return_referent_forgetting(w, to_return, elapsed) == Returned(w, to_return)

\* ReturnTarget::return_referent
return_referent(w, to_return, elapsed) == emit(Returned(w, to_return), to_return, elapsed)

\* Drop for ReturningRef: the guard goes out of scope along `path` and hands
\* its referent back to the factory
ReturningRef_drop(w, id, path, elapsed) ==
    return_referent([w EXCEPT !.scopes[id].st = "done", !.scopes[id].exit = path,
                              !.scopes[id].recorded = w.scopes[id].m],
                    w.scopes[id].m, elapsed)

----------------------------------------------------------------------------
(* Initial values *)

NotCalled == [called |-> FALSE, panic |-> FALSE, overflow |-> FALSE, value |-> 0]
WorkerIdle == [pc |-> "recv", holding |-> NoMetrics]
\* No update_metrics_map call is in progress
NotFolding == [dim_order |-> <<>>, rest |-> <<>>, before |-> EmptyFcn]
\* A reader away from the map; `torn` is history: the map it last read was
\* not the map as a completed fold (or new_with_bound) left it
ReaderIdle == [pc |-> "idle", torn |-> FALSE]

BucketUnused == bucket_in = 0 /\ bucket_out = NotCalled
\* AggregatingSink::new_with_bound: an empty map behind a fresh mutex
SinkNew ==
    /\ map = EmptyFcn /\ poisoned = FALSE /\ error_log = 0 /\ fold_log = <<>>
    /\ lock = {} /\ folding = NotFolding /\ readers = [r \in 1..MaxReaders |-> ReaderIdle]
\* mpsc::sync_channel(bound): an empty queue and one Sender, which the sink keeps
ChannelNew ==
    /\ channel = <<>> /\ worker = WorkerIdle /\ dropped = {} /\ accept_log = <<>>
    /\ senders = 1 /\ producers = MaxProducers
FactoryUnused == default_metrics_behavior = 0 /\ scopes = <<>> /\ factory_behaviors = <<>>

----------------------------------------------------------------------------
(* SpecBucket: bucket_10_2_sigfigs applied to every input of a range *)

InitBucket ==
    /\ overflow_checks \in BOOLEAN
    /\ bucket_in \in -MaxBucketInput..MaxBucketInput
    /\ bucket_out = NotCalled
    /\ SinkNew /\ ChannelNew /\ FactoryUnused

BucketCall ==
    /\ ~bucket_out.called
    /\ bucket_out' = [called |-> TRUE] @@ bucket_10_2_sigfigs(bucket_in)
    /\ UNCHANGED << overflow_checks, bucket_in, map, poisoned, error_log, fold_log,
                    default_metrics_behavior, scopes, accept_log, channel, worker, dropped, producers, senders, factory_behaviors, lock, folding, readers >>

NextBucket == BucketCall

SpecBucket == InitBucket /\ [][NextBucket]_vars

----------------------------------------------------------------------------
(* SpecFold: update_metrics_map called directly, one object after another *)

InitFold ==
    /\ overflow_checks \in BOOLEAN
    /\ BucketUnused /\ SinkNew /\ ChannelNew /\ FactoryUnused

FoldCall(o, dim_order, meas_order) ==
    /\ Len(fold_log) < MaxFolds
    /\ LET r == update_metrics_map(SinkState, o, dim_order, meas_order)
       IN  /\ map' = r.map
           /\ poisoned' = r.poisoned
           /\ error_log' = r.errors
           /\ fold_log' = Append(fold_log, [metrics |-> o, dim_order |-> dim_order,
                                             locked |-> ~poisoned, panicked |-> r.panicked])
    /\ UNCHANGED << overflow_checks, bucket_in, bucket_out,
                    default_metrics_behavior, scopes, accept_log, channel, worker, dropped, producers, senders, factory_behaviors, lock, folding, readers >>

NextFold ==
    \E o \in FoldInputs :
        \E dim_order \in DrainOrders(o.dimensions), meas_order \in DrainOrders(o.measurements) :
            FoldCall(o, dim_order, meas_order)

SpecFold == InitFold /\ [][NextFold]_vars

----------------------------------------------------------------------------
(* SpecScope: scopes of a MetricsFactory whose sink is an AggregatingSink *)

ApplyWorld(w) ==
    /\ scopes' = w.scopes
    /\ channel' = w.channel
    /\ accept_log' = w.accept_log
    /\ dropped' = w.dropped
    /\ error_log' = w.errors

\* The behaviour lists the factories of the model are constructed with
FactoryBehaviors ==
    { <<MetricsBehavior_Default>>, <<MetricsBehavior_SuppressTotalTime>>,
      <<MetricsBehavior_Suppress>>,
      <<MetricsBehavior_SuppressTotalTime, MetricsBehavior_Suppress>> }

ScopeBehaviors ==
    { MetricsBehavior_Default, MetricsBehavior_SuppressTotalTime, MetricsBehavior_Suppress }

\* The flags a caller adds inside a scope
AddedBehaviors == { MetricsBehavior_SuppressTotalTime, MetricsBehavior_Suppress }

\* The ways a scope is left: falling through its end, an early return, a panic unwinding
ExitPaths == { "normal", "early", "unwind" }

\* The factory and the scopes do no arithmetic that can overflow: the build
\* profile makes no difference to them, and this specification runs one.
InitScope ==
    /\ overflow_checks = FALSE
    /\ factory_behaviors \in FactoryBehaviors
    /\ default_metrics_behavior = new_with_allocator(factory_behaviors)
    /\ scopes = <<>>
    /\ BucketUnused /\ SinkNew /\ ChannelNew

\* let metrics = metrics_factory.record_scope("test");
RecordScope ==
    /\ Len(scopes) < MaxScopes
    /\ scopes' = Append(scopes, record_scope(Len(scopes) + 1, "test"))
    /\ UNCHANGED << overflow_checks, bucket_in, bucket_out, map, poisoned, error_log, fold_log,
                    default_metrics_behavior, accept_log, channel, worker, dropped, producers, senders, factory_behaviors, lock, folding, readers >>

\* let metrics = metrics_factory.record_scope_with_behavior("test", behavior);
RecordScopeWithBehavior(behavior) ==
    /\ Len(scopes) < MaxScopes
    /\ scopes' = Append(scopes, record_scope_with_behavior(Len(scopes) + 1, "test", behavior))
    /\ UNCHANGED << overflow_checks, bucket_in, bucket_out, map, poisoned, error_log, fold_log,
                    default_metrics_behavior, accept_log, channel, worker, dropped, producers, senders, factory_behaviors, lock, folding, readers >>

\* metrics.dimension("a", "x"), through the guard
ScopeDimension(id) ==
    /\ scopes[id].st = "live"
    /\ scopes' = [scopes EXCEPT ![id].m = Metrics_dimension(@, "a", "x")]
    /\ UNCHANGED << overflow_checks, bucket_in, bucket_out, map, poisoned, error_log, fold_log,
                    default_metrics_behavior, accept_log, channel, worker, dropped, producers, senders, factory_behaviors, lock, folding, readers >>

\* metrics.measurement("v", 13), through the guard
ScopeMeasurement(id) ==
    /\ scopes[id].st = "live"
    /\ scopes' = [scopes EXCEPT ![id].m = Metrics_measurement(@, "v", 13)]
    /\ UNCHANGED << overflow_checks, bucket_in, bucket_out, map, poisoned, error_log, fold_log,
                    default_metrics_behavior, accept_log, channel, worker, dropped, producers, senders, factory_behaviors, lock, folding, readers >>

\* metrics.add_behavior(behavior), through the guard
ScopeAddBehavior(id, behavior) ==
    /\ scopes[id].st = "live"
    /\ scopes' = [scopes EXCEPT ![id].m = add_behavior(@, behavior)]
    /\ UNCHANGED << overflow_checks, bucket_in, bucket_out, map, poisoned, error_log, fold_log,
                    default_metrics_behavior, accept_log, channel, worker, dropped, producers, senders, factory_behaviors, lock, folding, readers >>

\* The guard leaves its scope along `path`: Drop runs and returns the referent
ScopeExit(id, path, elapsed) ==
    /\ scopes[id].st = "live"
    /\ ApplyWorld(ReturningRef_drop(World, id, path, elapsed))
    /\ UNCHANGED << overflow_checks, bucket_in, bucket_out, map, poisoned, fold_log,
                    default_metrics_behavior, worker, producers, senders, factory_behaviors, lock, folding, readers >>

NextScope ==
    \/ RecordScope
    \/ \E behavior \in ScopeBehaviors : RecordScopeWithBehavior(behavior)
    \/ \E id \in DOMAIN scopes : ScopeDimension(id)
    \/ \E id \in DOMAIN scopes : ScopeMeasurement(id)
    \/ \E id \in DOMAIN scopes, behavior \in AddedBehaviors : ScopeAddBehavior(id, behavior)
    \/ \E id \in DOMAIN scopes, path \in ExitPaths, elapsed \in 0..MaxElapsed :
          ScopeExit(id, path, elapsed)

SpecScope == InitScope /\ [][NextScope]_vars

----------------------------------------------------------------------------
(* SpecSink: producers call accept while run_aggregator_forever drains *)

\* The metrics objects the producers hand to accept
SinkMeasurementMaps ==
    { "v" :> Observation(22),
      "v" :> DistributionScalar(0),
      ("v" :> DistributionScalar(101)) @@ ("totaltime" :> DistributionScalar(7)) }

InitSink ==
    /\ overflow_checks \in BOOLEAN
    /\ BucketUnused /\ SinkNew /\ ChannelNew /\ FactoryUnused

\* Some producer thread calls sink.accept(metrics_ref)
Accept(measurements) ==
    /\ Len(accept_log) < MaxAccepts
    /\ LET w == AggregatingSink_accept(World,
                    Metrics(Len(accept_log) + 1, "test", 0, "a" :> "dimension", measurements))
       IN  /\ channel' = w.channel
           /\ accept_log' = w.accept_log
           /\ dropped' = w.dropped
           /\ error_log' = w.errors
    /\ UNCHANGED << overflow_checks, bucket_in, bucket_out, map, poisoned, fold_log,
                    default_metrics_behavior, scopes, worker, producers, senders, factory_behaviors, lock, folding, readers >>

\* while let Ok(sunk_metrics_ref) = self.receiver.recv(): recv blocks while
\* the queue is empty and a Sender lives; it returns Err, which ends the
\* loop, once the queue is empty and every Sender has been dropped.
WorkerRecv ==
    /\ worker.pc = "recv"
    /\ channel # <<>> \/ senders = 0
    /\ IF channel # <<>>
       THEN /\ worker' = [pc |-> "update", holding |-> Head(channel)]
            /\ channel' = Tail(channel)
       ELSE /\ worker' = [pc |-> "done", holding |-> NoMetrics]
            /\ channel' = channel
    /\ UNCHANGED << overflow_checks, bucket_in, bucket_out, map, poisoned, error_log, fold_log,
                    default_metrics_behavior, scopes, accept_log, dropped, producers, senders, factory_behaviors, lock, folding, readers >>

\* self.update_metrics_map(sunk_metrics_ref); a panic ends the worker thread
WorkerUpdate(dim_order, meas_order) ==
    /\ worker.pc = "update"
    /\ LET o == worker.holding
           r == update_metrics_map(SinkState, o, dim_order, meas_order)
       IN  /\ map' = r.map
           /\ poisoned' = r.poisoned
           /\ error_log' = r.errors
           /\ fold_log' = Append(fold_log, [metrics |-> o, dim_order |-> dim_order,
                                             locked |-> ~poisoned, panicked |-> r.panicked])
           /\ worker' = [pc |-> IF r.panicked THEN "panicked" ELSE "recv", holding |-> NoMetrics]
    /\ UNCHANGED << overflow_checks, bucket_in, bucket_out,
                    default_metrics_behavior, scopes, accept_log, channel, dropped, producers, senders, factory_behaviors, lock, folding, readers >>

NextSink ==
    \/ \E measurements \in SinkMeasurementMaps : Accept(measurements)
    \/ WorkerRecv
    \/ \E dim_order \in DrainOrders(worker.holding.dimensions),
          meas_order \in DrainOrders(worker.holding.measurements) :
          WorkerUpdate(dim_order, meas_order)

SpecSink == InitSink /\ [][NextSink]_vars

----------------------------------------------------------------------------
(* SpecLock: the map's mutex. update_metrics_map is taken statement by
   statement, so that another thread can run between any two of them;
   readers take the lock as the test does, sink.map.lock().unwrap(). *)

\* The threads that take the lock
WorkerThread == <<"worker", 0>>
ReaderThread(r) == <<"reader", r>>

\* Mutex::lock on a mutex held by `holders`: it returns once nobody holds it
MutexAvailable_unguarded(holders) == TRUE

MutexAvailable(holders) == holders = {}

\* The map as the last completed step on it left it: during a fold, the map
\* the fold started from
Committed == IF worker.pc = "folding" THEN folding.before ELSE map

\* let mut map = self.map.lock().expect(..), and the two entry(..).or_default():
\* on a poisoned mutex expect panics, which ends the worker thread
WorkerLock(dim_order, meas_order) ==
    /\ worker.pc = "update"
    /\ MutexAvailable(lock)
    /\ LET o == worker.holding
           r == update_metrics_map(SinkState, o, dim_order, <<>>)
       IN  IF poisoned
           THEN /\ worker' = [pc |-> "panicked", holding |-> NoMetrics]
                /\ fold_log' = Append(fold_log, [metrics |-> o, dim_order |-> dim_order,
                                                  locked |-> FALSE, panicked |-> TRUE])
                /\ UNCHANGED << map, lock, folding >>
           ELSE /\ worker' = [worker EXCEPT !.pc = "folding"]
                /\ lock' = lock \cup {WorkerThread}
                /\ map' = r.map
                /\ folding' = [dim_order |-> dim_order, rest |-> meas_order, before |-> map]
                /\ fold_log' = fold_log
    /\ UNCHANGED << overflow_checks, bucket_in, bucket_out, poisoned, error_log,
                    default_metrics_behavior, scopes, accept_log, channel, dropped,
                    producers, senders, factory_behaviors, readers >>

\* One turn of measurements.drain().for_each(..): one measurement is folded.
\* A panic unwinds the call: the guard is dropped, which poisons the mutex
\* and releases it, and the worker thread ends.
WorkerFoldOne ==
    /\ worker.pc = "folding"
    /\ folding.rest # <<>>
    /\ LET o == worker.holding
           r == update_metrics_map(SinkState, o, folding.dim_order, <<Head(folding.rest)>>)
       IN  /\ map' = r.map
           /\ error_log' = r.errors
           /\ poisoned' = r.poisoned
           /\ IF r.panicked
              THEN /\ worker' = [pc |-> "panicked", holding |-> NoMetrics]
                   /\ lock' = lock \ {WorkerThread}
                   /\ folding' = NotFolding
                   /\ fold_log' = Append(fold_log, [metrics |-> o, dim_order |-> folding.dim_order,
                                                     locked |-> TRUE, panicked |-> TRUE])
              ELSE /\ folding' = [folding EXCEPT !.rest = Tail(folding.rest)]
                   /\ UNCHANGED << worker, lock, fold_log >>
    /\ UNCHANGED << overflow_checks, bucket_in, bucket_out,
                    default_metrics_behavior, scopes, accept_log, channel, dropped,
                    producers, senders, factory_behaviors, readers >>

\* update_metrics_map returns: the guard is dropped, the mutex released
WorkerUnlock ==
    /\ worker.pc = "folding"
    /\ folding.rest = <<>>
    /\ lock' = lock \ {WorkerThread}
    /\ worker' = WorkerIdle
    /\ folding' = NotFolding
    /\ fold_log' = Append(fold_log, [metrics |-> worker.holding, dim_order |-> folding.dim_order,
                                      locked |-> TRUE, panicked |-> FALSE])
    /\ UNCHANGED << overflow_checks, bucket_in, bucket_out, map, poisoned, error_log,
                    default_metrics_behavior, scopes, accept_log, channel, dropped,
                    producers, senders, factory_behaviors, readers >>

\* let map = sink.map.lock().unwrap(); and the read of *map. unwrap panics on
\* a poisoned mutex.
ReaderLock(r) ==
    /\ readers[r].pc = "idle"
    /\ MutexAvailable(lock)
    /\ IF poisoned
       THEN /\ readers' = [readers EXCEPT ![r].pc = "panicked"]
            /\ lock' = lock
       ELSE /\ readers' = [readers EXCEPT ![r] = [pc |-> "locked", torn |-> map # Committed]]
            /\ lock' = lock \cup {ReaderThread(r)}
    /\ UNCHANGED << overflow_checks, bucket_in, bucket_out, map, poisoned, error_log, fold_log,
                    default_metrics_behavior, scopes, accept_log, channel, worker, dropped,
                    producers, senders, factory_behaviors, folding >>

\* The reader's guard is dropped
ReaderUnlock(r) ==
    /\ readers[r].pc = "locked"
    /\ readers' = [readers EXCEPT ![r].pc = "idle"]
    /\ lock' = lock \ {ReaderThread(r)}
    /\ UNCHANGED << overflow_checks, bucket_in, bucket_out, map, poisoned, error_log, fold_log,
                    default_metrics_behavior, scopes, accept_log, channel, worker, dropped,
                    producers, senders, factory_behaviors, folding >>

NextLock ==
    \/ \E measurements \in SinkMeasurementMaps : Accept(measurements)
    \/ WorkerRecv
    \/ \E dim_order \in DrainOrders(worker.holding.dimensions),
          meas_order \in DrainOrders(worker.holding.measurements) :
          WorkerLock(dim_order, meas_order)
    \/ WorkerFoldOne
    \/ WorkerUnlock
    \/ \E r \in DOMAIN readers : ReaderLock(r)
    \/ \E r \in DOMAIN readers : ReaderUnlock(r)

SpecLock == InitSink /\ [][NextLock]_vars

----------------------------------------------------------------------------
(* SpecWorker: the life of the worker thread. Producers call accept and go
   away one by one; run_aggregator_forever gets its turn whenever it can
   take a step. *)

\* A live producer calls sink.accept(metrics_ref)
ProducerAccept(measurements) ==
    /\ producers > 0
    /\ Accept(measurements)

\* A producer (a factory, a thread that borrowed the sink) is dropped. It
\* held a reference to the sink, not a Sender of its own: accept sends
\* through self.sender.
ProducerDrop ==
    /\ producers > 0
    /\ producers' = producers - 1
    /\ UNCHANGED << overflow_checks, bucket_in, bucket_out, map, poisoned, error_log, fold_log,
                    default_metrics_behavior, scopes, accept_log, channel, worker, dropped,
                    senders, factory_behaviors, lock, folding, readers >>

\* The AggregatingSink itself is dropped, and its `sender` field with it.
\* run_aggregator_forever(&self) borrows the sink for as long as the loop
\* runs, so this waits for the worker thread to have ended.
SinkDrop ==
    /\ producers = 0
    /\ worker.pc \in {"done", "panicked"}
    /\ senders = 1
    /\ senders' = 0
    /\ UNCHANGED << overflow_checks, bucket_in, bucket_out, map, poisoned, error_log, fold_log,
                    default_metrics_behavior, scopes, accept_log, channel, worker, dropped,
                    producers, factory_behaviors, lock, folding, readers >>

WorkerStep ==
    \/ WorkerRecv
    \/ \E dim_order \in DrainOrders(worker.holding.dimensions),
          meas_order \in DrainOrders(worker.holding.measurements) :
          WorkerUpdate(dim_order, meas_order)

NextWorker ==
    \/ \E measurements \in SinkMeasurementMaps : ProducerAccept(measurements)
    \/ ProducerDrop
    \/ SinkDrop
    \/ WorkerStep

\* update_metrics_map comes to its end: it returns, or a panic unwinds it.
\* A step of NextWorker is such a step exactly if it is a WorkerUpdate step,
\* and one is possible exactly when WorkerUpdate is, that is whenever the
\* worker holds an object.
WorkerUpdateEnds ==
    /\ worker.pc = "update"
    /\ worker' \in { WorkerIdle, [pc |-> "panicked", holding |-> NoMetrics] }

\* The worker thread is scheduled: weak fairness on its steps, the receive and
\* the fold
SpecWorker ==
    InitSink /\ [][NextWorker]_vars /\ WF_vars(WorkerRecv) /\ WF_worker(WorkerUpdateEnds)

----------------------------------------------------------------------------
(* Claims about the factory and its scopes (SpecScope) *)

\* The number of Sink::accept calls made with the object `id`
AcceptCalls(id) == Cardinality({ i \in 1..Len(accept_log) : accept_log[i].id = id })

\* The object `id` as Sink::accept was given it
Accepted(id) == accept_log[CHOOSE i \in 1..Len(accept_log) : accept_log[i].id = id]

Done(id) == scopes[id].st = "done"
Suppressed(id) == has_behavior(scopes[id].recorded, MetricsBehavior_Suppress)
TotalTimeSuppressed(id) == has_behavior(scopes[id].recorded, MetricsBehavior_SuppressTotalTime)

\* C1: a guard's object is handed to return_referent, and so to emit, exactly
\* once when the guard leaves its scope, whatever the exit path, and not
\* before; no two guards hold the same metrics object.
C1_ReturnedExactlyOnce ==
    /\ \A id \in DOMAIN scopes :
          /\ scopes[id].st = "live" => (scopes[id].returned = 0 /\ scopes[id].emitted = 0)
          /\ Done(id) => (scopes[id].exit \in ExitPaths /\ scopes[id].returned = 1
                          /\ scopes[id].emitted = 1)
    /\ \A i, j \in DOMAIN scopes : i # j => scopes[i].m.id # scopes[j].m.id

C1_Witness ==
    \E i, j \in DOMAIN scopes :
        /\ Done(i) /\ scopes[i].exit = "unwind" /\ scopes[i].returned = 1 /\ scopes[i].emitted = 1
        /\ scopes[j].st = "live"

\* C2 as claimed: every scope that was left, on whatever path, had its object
\* handed to Sink::accept exactly once.
C2_SingleEmit ==
    \A id \in DOMAIN scopes : Done(id) => AcceptCalls(id) = 1

\* C2 as amended: a scope that was left had its object handed to Sink::accept
\* exactly once if the object did not carry Suppress and never if it did; no
\* object is handed to the sink while its guard is live.
C2_SingleEmitUnlessSuppressed ==
    \A id \in DOMAIN scopes :
        /\ scopes[id].st = "live" => AcceptCalls(id) = 0
        /\ (Done(id) /\ ~Suppressed(id)) => AcceptCalls(id) = 1
        /\ (Done(id) /\ Suppressed(id)) => AcceptCalls(id) = 0

C2_Witness ==
    \E i, j \in DOMAIN scopes :
        /\ Done(i) /\ ~Suppressed(i) /\ scopes[i].exit = "early" /\ AcceptCalls(i) = 1
        /\ Done(j) /\ Suppressed(j) /\ AcceptCalls(j) = 0

\* C3: an object that carries Suppress when emit is called never reaches the
\* sink: no accept call is made with it, it is not queued, and emit records
\* no totaltime sample into it, whatever else it carries.
C3_SuppressNeverReachesSink ==
    \A id \in DOMAIN scopes :
        (Done(id) /\ Suppressed(id)) =>
            /\ AcceptCalls(id) = 0
            /\ \A i \in 1..Len(channel) : channel[i].id # id
            /\ scopes[id].m = scopes[id].recorded

\* Suppress added inside the scope, on an object with a dimension and a measurement
C3_Witness ==
    /\ ~has_behavior(set_raw_behavior(NoMetrics, default_metrics_behavior), MetricsBehavior_Suppress)
    /\ \E id \in DOMAIN scopes :
          /\ Done(id) /\ Suppressed(id) /\ ~TotalTimeSuppressed(id)
          /\ DOMAIN scopes[id].recorded.measurements = {"v"}
          /\ DOMAIN scopes[id].recorded.dimensions = {"a"}
          /\ AcceptCalls(id) = 0

\* The object carries a totaltime Distribution
HasTotalTime(m) ==
    "totaltime" \in DOMAIN m.measurements /\ m.measurements["totaltime"].kind = "Distribution"

\* The measurements of m other than totaltime
WithoutTotalTime(m) ==
    [n \in DOMAIN m.measurements \ {"totaltime"} |-> m.measurements[n]]

\* C4 as claimed: a scope without SuppressTotalTime always has a totaltime
\* sample recorded into its object on emission, before the sink gets it; with
\* SuppressTotalTime emit adds no sample, and what reaches the sink carries
\* exactly the measurements the caller recorded.
C4_TotalTime ==
    \A id \in DOMAIN scopes :
        /\ (Done(id) /\ ~TotalTimeSuppressed(id)) =>
              /\ HasTotalTime(scopes[id].m)
              /\ \A i \in 1..Len(accept_log) : accept_log[i].id = id => HasTotalTime(accept_log[i])
        /\ (Done(id) /\ TotalTimeSuppressed(id)) =>
              /\ scopes[id].m.measurements = scopes[id].recorded.measurements
              /\ \A i \in 1..Len(accept_log) :
                    accept_log[i].id = id =>
                        accept_log[i].measurements = scopes[id].recorded.measurements

\* C4 as amended: of the scopes that do not carry Suppress, one without
\* SuppressTotalTime has a totaltime Distribution sample recorded into its
\* object before the sink gets it, its other measurements as the caller
\* recorded them, and one with SuppressTotalTime reaches the sink exactly as
\* the caller recorded it. A scope that carries Suppress gets no totaltime
\* sample and does not reach the sink.
C4_TotalTimeUnlessSuppressed ==
    \A id \in DOMAIN scopes :
        /\ (Done(id) /\ ~Suppressed(id) /\ ~TotalTimeSuppressed(id)) =>
              /\ AcceptCalls(id) = 1
              /\ HasTotalTime(Accepted(id))
              /\ WithoutTotalTime(Accepted(id)) = scopes[id].recorded.measurements
              /\ Accepted(id).dimensions = scopes[id].recorded.dimensions
        /\ (Done(id) /\ ~Suppressed(id) /\ TotalTimeSuppressed(id)) =>
              (AcceptCalls(id) = 1 /\ Accepted(id) = scopes[id].recorded)
        /\ (Done(id) /\ Suppressed(id)) =>
              (AcceptCalls(id) = 0 /\ scopes[id].m.measurements = scopes[id].recorded.measurements)

C4_Witness ==
    \E i, j \in DOMAIN scopes :
        /\ Done(i) /\ ~Suppressed(i) /\ ~TotalTimeSuppressed(i)
        /\ DOMAIN Accepted(i).measurements = {"v", "totaltime"}
        /\ Done(j) /\ ~Suppressed(j) /\ TotalTimeSuppressed(j)
        /\ DOMAIN Accepted(j).measurements = {"v"}

----------------------------------------------------------------------------
(* Claims about accept and the worker (SpecSink) *)

FoldedIds == { fold_log[i].metrics.id : i \in 1..Len(fold_log) }
QueuedIds == { channel[i].id : i \in 1..Len(channel) }

\* C5: accept never blocks: whatever the channel and the worker are doing, a
\* producer's accept call can be taken and is over in that one step; made
\* when the channel holds ChannelBound objects it drops the object, logs an
\* error and leaves the channel as it is, and a dropped object is never queued,
\* held by the worker or folded into the map afterwards.
C5_AcceptNeverBlocks ==
    /\ [](Len(accept_log) < MaxAccepts =>
             \A measurements \in SinkMeasurementMaps : ENABLED Accept(measurements))
    /\ [](/\ Len(channel) <= ChannelBound
          /\ dropped \cap (QueuedIds \cup FoldedIds \cup {worker.holding.id}) = {})
    /\ [][ Len(accept_log') = Len(accept_log) + 1 =>
              IF Len(channel) = ChannelBound
              THEN /\ channel' = channel
                   /\ dropped' = dropped \cup {Len(accept_log')}
                   /\ error_log' = error_log + 1
                   /\ map' = map /\ worker' = worker
              ELSE /\ channel' = Append(channel, accept_log'[Len(accept_log')])
                   /\ dropped' = dropped
      ]_vars

\* An object was dropped on a full channel, and the worker went on folding
\* objects accepted after it
C5_Witness ==
    \E id \in dropped : \E later \in FoldedIds :
        /\ later > id
        /\ id \notin FoldedIds
        /\ worker.pc = "recv"

----------------------------------------------------------------------------
(* Claims about bucket_10_2_sigfigs (SpecBucket) *)

\* The values test_bucket and the specification list
BucketTable ==
    (1 :> 1) @@ (-11 :> -11) @@ (99 :> 99) @@ (100 :> 100) @@ (101 :> 110) @@ (109 :> 110)
    @@ (110 :> 110) @@ (111 :> 120) @@ (8000 :> 8000) @@ (8799 :> 8800) @@ (8800 :> 8800)
    @@ (8801 :> 8900)

\* p = max(0, ceil(log10(|v|)) - 2), from the number of digits of |v| >= 1
GridExponent(v) ==
    LET k == CHOOSE d \in 0..10 : 10^d >= Abs(v) /\ (d = 0 \/ 10^(d - 1) < Abs(v))
    IN  IF k > 2 THEN k - 2 ELSE 0

\* b = sign(v) * ceil(|v| / 10^p) * 10^p: b has v's sign and |b| is the least
\* multiple of 10^p that is >= |v|
OnGrid(v, b) ==
    LET m == 10^GridExponent(v)
    IN  /\ Signum(b) = Signum(v)
        /\ Abs(b) % m = 0
        /\ Abs(b) >= Abs(v)
        /\ Abs(b) - Abs(v) < m

\* C9: for every non-zero v of the range, bucket_10_2_sigfigs(v) returns
\* sign(v) * ceil(|v| / 10^p) * 10^p with p = max(0, ceil(log10(|v|)) - 2),
\* bucket(-v) = -bucket(v), and the listed values come out as listed.
C9_BucketingCorrect ==
    (bucket_out.called /\ bucket_in # 0) =>
        /\ ~bucket_out.panic
        /\ OnGrid(bucket_in, bucket_out.value)
        /\ bucket_10_2_sigfigs(-bucket_in).value = -bucket_out.value
        /\ (bucket_in \in DOMAIN BucketTable => bucket_out.value = BucketTable[bucket_in])
        /\ (-bucket_in \in DOMAIN BucketTable => bucket_out.value = -BucketTable[-bucket_in])

C9_Witness == bucket_out.called /\ bucket_in = 8801 /\ bucket_out.value = 8900

\* C10: bucket_10_2_sigfigs(0) returns 0 without failing: no panic and no
\* arithmetic overflow in the power computation.
C10_ZeroBucketsToZero ==
    (bucket_out.called /\ bucket_in = 0) =>
        (~bucket_out.panic /\ ~bucket_out.overflow /\ bucket_out.value = 0)

----------------------------------------------------------------------------
(* Claims about update_metrics_map (SpecFold) *)

\* The calls that acquired the lock (the others panicked on a poisoned mutex)
LockedFolds == { i \in 1..Len(fold_log) : fold_log[i].locked }

\* A metrics object's dimensions, and a position of the map, as sets of pairs
DimensionSet(dimensions) == { <<k, dimensions[k]>> : k \in DOMAIN dimensions }
PositionSet(p) == { p[i] : i \in 1..Len(p) }

\* The entries of the map a metrics object with this name and dimensions falls into
EntriesFor(name, dimensions) ==
    IF name \in DOMAIN map
    THEN { p \in DOMAIN map[name] : PositionSet(p) = DimensionSet(dimensions) }
    ELSE {}

\* C7: objects with the same metric name and the same set of dimension pairs,
\* drained in any order, are folded into one and the same position entry;
\* objects whose dimension sets differ are folded into distinct entries.
C7_DimensionPositionEquivalence ==
    /\ \A i \in LockedFolds :
          Cardinality(EntriesFor(fold_log[i].metrics.metrics_name,
                                 fold_log[i].metrics.dimensions)) = 1
    /\ \A name \in DOMAIN map :
          Cardinality(DOMAIN map[name]) =
              Cardinality({ DimensionSet(fold_log[i].metrics.dimensions) :
                              i \in { j \in LockedFolds : fold_log[j].metrics.metrics_name = name } })

C7_Witness ==
    \E i, j, k \in LockedFolds :
        /\ fold_log[i].metrics.metrics_name = "test"
        /\ fold_log[j].metrics.metrics_name = "test"
        /\ fold_log[k].metrics.metrics_name = "test"
        /\ fold_log[i].metrics.dimensions = fold_log[j].metrics.dimensions
        /\ fold_log[i].dim_order = <<"a", "b">>
        /\ fold_log[j].dim_order = <<"b", "a">>
        /\ fold_log[k].metrics.dimensions # fold_log[i].metrics.dimensions
        /\ Cardinality(DOMAIN map["test"]) = 2

RECURSIVE SumOf(_)
SumOf(s) == IF s = <<>> THEN 0 ELSE Head(s) + SumOf(Tail(s))
SmallestOf(s) == CHOOSE x \in { s[i] : i \in 1..Len(s) } : \A i \in 1..Len(s) : x <= s[i]
LargestOf(s) == CHOOSE x \in { s[i] : i \in 1..Len(s) } : \A i \in 1..Len(s) : x >= s[i]

\* Every call so far folded an object like the first one's: the same metric
\* name and dimensions, and one Observation under the same measurement name
ObservationRun ==
    /\ fold_log # <<>>
    /\ \A i \in 1..Len(fold_log) :
          /\ fold_log[i].metrics.metrics_name = fold_log[1].metrics.metrics_name
          /\ fold_log[i].metrics.dimensions = fold_log[1].metrics.dimensions
          /\ DOMAIN fold_log[i].metrics.measurements = DOMAIN fold_log[1].metrics.measurements
          /\ Cardinality(DOMAIN fold_log[i].metrics.measurements) = 1
          /\ \A n \in DOMAIN fold_log[i].metrics.measurements :
                fold_log[i].metrics.measurements[n].kind = "Observation"

ObservationRunValues ==
    [i \in 1..Len(fold_log) |->
        fold_log[i].metrics.measurements[CHOOSE n \in DOMAIN fold_log[i].metrics.measurements : TRUE].value]

\* C8: after folding Observations v1..vn for one metric name, position and
\* measurement name, the map holds exactly that one entry, a StatisticSet with
\* min = the smallest vi, max = the largest, sum = v1+...+vn, count = n.
C8_StatisticSetFolding ==
    ObservationRun =>
        LET o == fold_log[1].metrics
            vals == ObservationRunValues
        IN  /\ DOMAIN map = {o.metrics_name}
            /\ Cardinality(DOMAIN map[o.metrics_name]) = 1
            /\ \A p \in DOMAIN map[o.metrics_name] :
                  /\ PositionSet(p) = DimensionSet(o.dimensions)
                  /\ DOMAIN map[o.metrics_name][p] = DOMAIN o.measurements
                  /\ \A n \in DOMAIN o.measurements :
                        LET a == map[o.metrics_name][p][n]
                        IN  /\ a.kind = "StatisticSet"
                            /\ a.min = SmallestOf(vals)
                            /\ a.max = LargestOf(vals)
                            /\ a.sum = SumOf(vals)
                            /\ a.count = Len(vals)

\* test_aggregation: 22 then 20 under "test", {a: "dimension"}, "v"
C8_Witness ==
    /\ ObservationRun
    /\ ObservationRunValues = <<22, 20>>
    /\ DOMAIN map = {"test"}
    /\ <<<<"a", "dimension">>>> \in DOMAIN map["test"]
    /\ LET a == map["test"][<<<<"a", "dimension">>>>]["v"]
       IN  a.min = 20 /\ a.max = 22 /\ a.sum = 42 /\ a.count = 2

\* The Aggregation kind a measurement is folded into
KindFor(measurement) ==
    IF measurement.kind = "Observation" THEN "StatisticSet" ELSE "Histogram"

\* The number of samples a measurement carries
SampleCount(measurement) ==
    IF measurement.collection THEN Len(measurement.values) ELSE 1

RECURSIVE TotalCount(_)
TotalCount(buckets) ==
    IF DOMAIN buckets = {} THEN 0
    ELSE LET b == CHOOSE x \in DOMAIN buckets : TRUE
         IN  buckets[b] + TotalCount([x \in DOMAIN buckets \ {b} |-> buckets[x]])

\* The number of values an Aggregation has taken in
Folded(a) == IF a.kind = "StatisticSet" THEN a.count ELSE TotalCount(a.buckets)

\* A measurement of a call that got the lock was folded into the position's
\* measurement map: its entry is there, of its kind, with its samples counted
MeasurementFolded(measurement, n, before, after) ==
    /\ n \in DOMAIN after
    /\ after[n].kind = KindFor(measurement)
    /\ Folded(after[n]) =
           (IF n \in DOMAIN before THEN Folded(before[n]) ELSE 0) + SampleCount(measurement)

KindConflicts(measurements, before) ==
    { n \in DOMAIN measurements : n \in DOMAIN before /\ before[n].kind # KindFor(measurements[n]) }

\* C6: the kind of every (metric, position, measurement name) entry never
\* changes once set; a fold that meets a kind conflict leaves the existing
\* Aggregation exactly unchanged and logs an error, and the other measurements
\* of the same metrics object are still folded.
C6_KindConflictSafety ==
    [][ (Len(fold_log') = Len(fold_log) + 1 /\ fold_log'[Len(fold_log')].locked) =>
            LET call == fold_log'[Len(fold_log')]
                o == call.metrics
                p == CHOOSE q \in DOMAIN map'[o.metrics_name] :
                         PositionSet(q) = DimensionSet(o.dimensions)
                before == IF o.metrics_name \in DOMAIN map /\ p \in DOMAIN map[o.metrics_name]
                          THEN map[o.metrics_name][p] ELSE EmptyFcn
                after == map'[o.metrics_name][p]
            IN  /\ \A m \in DOMAIN map : \A q \in DOMAIN map[m] : \A n \in DOMAIN map[m][q] :
                      map'[m][q][n].kind = map[m][q][n].kind
                /\ \A n \in DOMAIN after \ DOMAIN before :
                      after[n].kind = KindFor(o.measurements[n])
                /\ \A n \in KindConflicts(o.measurements, before) : after[n] = before[n]
                /\ KindConflicts(o.measurements, before) # {} =>
                      /\ error_log' = error_log + Cardinality(KindConflicts(o.measurements, before))
                      /\ \A n \in DOMAIN o.measurements \ KindConflicts(o.measurements, before) :
                            MeasurementFolded(o.measurements[n], n, before, after)
      ]_vars

----------------------------------------------------------------------------
(* Claims about the behaviour flags (SpecScope) *)

\* The bits set in a mask, as the set of their values (1, 2, 4, ...)
RECURSIVE BitsFrom(_, _)
BitsFrom(mask, bit) ==
    IF mask = 0 THEN {}
    ELSE (IF mask % 2 = 1 THEN {bit} ELSE {}) \cup BitsFrom(mask \div 2, 2 * bit)

Bits(mask) == BitsFrom(mask, 1)

\* The flags listed at the factory's construction
DefaultFlags == { factory_behaviors[i] : i \in DOMAIN factory_behaviors }

\* The stored mask is the OR of the listed behaviours
MaskIsOr == Bits(default_metrics_behavior) = UNION { Bits(f) : f \in DefaultFlags }

\* The guard a step has just returned
NewGuard == scopes'[Len(scopes')]

\* The object of the new guard carries exactly the default mask, OR'd with
\* the behaviour arguments `with` (none for record_scope)
CarriesOr(with) ==
    Bits(NewGuard.m.behaviors) = Bits(default_metrics_behavior) \cup UNION { Bits(b) : b \in with }

\* has_behavior(f) holds on the new guard's object iff f is among the
\* defaults or is a behaviour argument, for the flags f of `flags`
HasIffGiven(flags, with) ==
    \A f \in flags : has_behavior(NewGuard.m, f) <=> (f \in DefaultFlags \/ f \in with)

----------------------------------------------------------------------------
(* The error of bucketing (SpecBucket) *)

\* The number of significant figures of x >= 1: its digits, trailing zeros
\* not counted
RECURSIVE Digits(_)
Digits(x) == IF x < 10 THEN 1 ELSE 1 + Digits(x \div 10)

RECURSIVE SignificantFigures(_)
SignificantFigures(x) == IF x % 10 = 0 THEN SignificantFigures(x \div 10) ELSE Digits(x)

\* C18: bucketing rounds away from zero with bounded error: for every
\* non-zero v of the range, bucket(v) has the sign of v, |bucket(v)| >= |v|,
\* |bucket(v)| - |v| < 10^p with p = max(0, ceil(log10(|v|)) - 2), the
\* relative error is below 10%, and bucket(v) is a multiple of 10^p with at
\* most 2 significant figures.
C18_BucketingError ==
    (bucket_out.called /\ bucket_in # 0) =>
        LET v == Abs(bucket_in)
            b == Abs(bucket_out.value)
            m == 10^GridExponent(bucket_in)
        IN  /\ ~bucket_out.panic
            /\ (bucket_in > 0 => bucket_out.value > 0)
            /\ (bucket_in < 0 => bucket_out.value < 0)
            /\ b >= v
            /\ b - v < m
            /\ 10 * (b - v) < v
            /\ b % m = 0
            /\ SignificantFigures(b) <= 2

\* -8801 is bucketed to -8900: away from zero, 99 off, two figures
C18_Witness == bucket_out.called /\ bucket_in = -8801 /\ bucket_out.value = -8900

----------------------------------------------------------------------------
(* The frame of a fold (SpecFold) *)

\* The positions under metric name `name` in the map m that stand for the
\* dimension set `dimensions`
PositionsOf(m, name, dimensions) ==
    IF name \in DOMAIN m
    THEN { p \in DOMAIN m[name] : PositionSet(p) = DimensionSet(dimensions) }
    ELSE {}

\* The update_metrics_map call a step has just made
LastFold == fold_log'[Len(fold_log')]

\* C16: each fold is independent: an update_metrics_map call for an object
\* with metric name M and dimension position P leaves every entry under
\* another metric name or another position as it was, removes nothing, and
\* within (M, P) changes only the measurement names the object carries; a
\* call that got the lock leaves exactly one entry (M, P) in the map, created
\* if it was absent, even when the object has no measurements; a call that
\* found the mutex poisoned changes nothing.
C16_FoldFrame ==
    [][ Len(fold_log') = Len(fold_log) + 1 =>
          LET o == LastFold.metrics
              M == o.metrics_name
              old == PositionsOf(map, M, o.dimensions)
              new == PositionsOf(map', M, o.dimensions)
          IN  /\ \A name \in DOMAIN map :
                    /\ name \in DOMAIN map'
                    /\ name # M => map'[name] = map[name]
                    /\ \A p \in DOMAIN map[name] :
                          /\ p \in DOMAIN map'[name]
                          /\ p \notin old => map'[name][p] = map[name][p]
                          /\ \A n \in DOMAIN map[name][p] :
                                /\ n \in DOMAIN map'[name][p]
                                /\ n \notin DOMAIN o.measurements =>
                                      map'[name][p][n] = map[name][p][n]
              /\ \A name \in DOMAIN map' :
                    /\ name \notin DOMAIN map => name = M
                    /\ \A p \in DOMAIN map'[name] :
                          /\ (name \notin DOMAIN map \/ p \notin DOMAIN map[name]) => p \in new
                          /\ \A n \in DOMAIN map'[name][p] :
                                (name \notin DOMAIN map \/ p \notin DOMAIN map[name]
                                   \/ n \notin DOMAIN map[name][p]) => n \in DOMAIN o.measurements
              /\ LastFold.locked => Cardinality(new) = 1
              /\ ~LastFold.locked => map' = map
      ]_vars

\* Under "test" the map has a StatisticSet at one position and, at another,
\* the entry that the fold of an object without measurements created; the
\* name "other" has its own entry
C16_Witness ==
    /\ DOMAIN map = {"test", "other"}
    /\ \E p, q \in DOMAIN map["test"] :
          /\ p # q
          /\ map["test"][p] = EmptyFcn
          /\ \E n \in DOMAIN map["test"][q] : map["test"][q][n].kind = "StatisticSet"
    /\ \E i \in DOMAIN fold_log :
          fold_log[i].metrics.measurements = EmptyFcn /\ ~fold_log[i].panicked

----------------------------------------------------------------------------
(* The StatisticSet invariant (SpecFold) *)

\* The StatisticSets of the map m, each with the place it is stored at
StatisticSetsOf(m) ==
    { <<M, p, n>> \in UNION { UNION { { <<M, p, n>> : n \in DOMAIN m[M][p] } : p \in DOMAIN m[M] }
                              : M \in DOMAIN m } :
        m[M][p][n].kind = "StatisticSet" }

\* C19: a fresh StatisticSet is the sentinel {i64::MAX, i64::MIN, 0, 0}; every
\* StatisticSet of the map has count >= 1, min <= max and
\* count*min <= sum <= count*max; its count never decreases, its min never
\* increases and its max never decreases.
C19_StatisticSetInvariant ==
    /\ [](/\ StatisticSetDefault.min = I64_MAX /\ StatisticSetDefault.max = I64_MIN
          /\ StatisticSetDefault.sum = 0 /\ StatisticSetDefault.count = 0)
    /\ [](\A e \in StatisticSetsOf(map) :
             LET a == map[e[1]][e[2]][e[3]]
             IN  /\ a.count >= 1
                 /\ a.min <= a.max
                 /\ a.count * a.min <= a.sum
                 /\ a.sum <= a.count * a.max)
    /\ [][ \A e \in StatisticSetsOf(map) :
              LET a == map[e[1]][e[2]][e[3]]
                  b == map'[e[1]][e[2]][e[3]]
              IN  /\ e \in StatisticSetsOf(map')
                  /\ b.count >= a.count /\ b.min <= a.min /\ b.max >= a.max
      ]_vars

----------------------------------------------------------------------------
(* Order independence of aggregation (SpecFold) *)

\* Two logged folds use one measurement name as an Observation in one and as a
\* Distribution in the other, under the same metric name and position
KindConflict(d, e) ==
    /\ d.metrics.metrics_name = e.metrics.metrics_name
    /\ DimensionPosition(d.metrics.dimensions, d.dim_order)
         = DimensionPosition(e.metrics.dimensions, e.dim_order)
    /\ \E n \in DOMAIN d.metrics.measurements \cap DOMAIN e.metrics.measurements :
           d.metrics.measurements[n].kind # e.metrics.measurements[n].kind

NoKindConflict(log) ==
    \A i, j \in 1..Len(log) : ~KindConflict(log[i], log[j])

\* The maps a new sink can hold after update_metrics_map was called for the
\* logged objects in the order `entries`, whatever order each object's
\* measurements are drained in
RECURSIVE RefoldedMaps(_, _)
RefoldedMaps(s, entries) ==
    IF entries = <<>> THEN { s.map }
    ELSE UNION { RefoldedMaps(update_metrics_map(s, Head(entries).metrics,
                                                 Head(entries).dim_order, meas_order),
                              Tail(entries)) :
                 meas_order \in DrainOrders(Head(entries).metrics.measurements) }

\* The logged folds in every order
Reorderings(log) ==
    { [i \in 1..Len(log) |-> log[pi[i]]] : pi \in Permutations(1..Len(log)) }

NewSinkState == [map |-> EmptyFcn, poisoned |-> FALSE, errors |-> 0]

\* C20: when no measurement name is used both as Observation and as
\* Distribution under one metric name and position, folding the same objects
\* in any other order yields exactly the map folding them in this order did.
C20_OrderIndependent ==
    NoKindConflict(fold_log) =>
        \A entries \in Reorderings(fold_log) : RefoldedMaps(NewSinkState, entries) = { map }

\* With a kind conflict the order can matter: some reordering yields another map
C20_ConflictOrderMatters ==
    /\ ~NoKindConflict(fold_log)
    /\ \A i \in 1..Len(fold_log) : ~fold_log[i].panicked
    /\ \E entries \in Reorderings(fold_log) : map \notin RefoldedMaps(NewSinkState, entries)

----------------------------------------------------------------------------
(* Histogram counts (SpecFold) *)

\* The samples of a measurement: one for a scalar Distribution, the elements
\* of a sequence, none for an Observation
SamplesOf(measurement) ==
    IF measurement.kind # "Distribution" THEN <<>>
    ELSE IF measurement.collection THEN measurement.values ELSE <<measurement.value>>

\* The Distribution samples that the first k update_metrics_map calls were
\* given for metric name M, position p and measurement name n, in order
RECURSIVE SamplesGiven(_, _, _, _)
SamplesGiven(k, M, p, n) ==
    IF k = 0 THEN <<>>
    ELSE LET o == fold_log[k].metrics
         IN  SamplesGiven(k - 1, M, p, n) \o
             (IF /\ o.metrics_name = M
                 /\ DimensionSet(o.dimensions) = PositionSet(p)
                 /\ n \in DOMAIN o.measurements
              THEN SamplesOf(o.measurements[n]) ELSE <<>>)

\* C17: histogram count conservation: every Histogram of the map counts, in
\* the bucket bucket_10_2_sigfigs(s), each Distribution sample s given to
\* the folds for its metric name, position and measurement name, once: the
\* bucket counts sum to the number of those samples; and no bucket count
\* ever decreases or disappears.
C17_HistogramCounts ==
    /\ [](\A M \in DOMAIN map : \A p \in DOMAIN map[M] : \A n \in DOMAIN map[M][p] :
             map[M][p][n].kind = "Histogram" =>
                 LET given == SamplesGiven(Len(fold_log), M, p, n)
                     buckets == map[M][p][n].buckets
                     InBucket(b) == { k \in DOMAIN given : bucket_10_2_sigfigs(given[k]).value = b }
                 IN  /\ TotalCount(buckets) = Len(given)
                     /\ \A b \in DOMAIN buckets : buckets[b] = Cardinality(InBucket(b))
                     /\ \A k \in DOMAIN given :
                           bucket_10_2_sigfigs(given[k]).value \in DOMAIN buckets)
    /\ [][ \A M \in DOMAIN map : \A p \in DOMAIN map[M] : \A n \in DOMAIN map[M][p] :
              map[M][p][n].kind = "Histogram" =>
                  \A b \in DOMAIN map[M][p][n].buckets :
                      /\ b \in DOMAIN map'[M][p][n].buckets
                      /\ map'[M][p][n].buckets[b] >= map[M][p][n].buckets[b]
      ]_vars

----------------------------------------------------------------------------
(* Conservation of the accepted objects (SpecSink) *)

\* The objects passed to accept so far
AcceptedIds == 1..Len(accept_log)
\* How many times the object is in the channel, and how many
\* update_metrics_map calls were made with it
QueuedTimes(id) == Cardinality({ i \in DOMAIN channel : channel[i].id = id })
FoldedTimes(id) == Cardinality({ i \in DOMAIN fold_log : fold_log[i].metrics.id = id })
\* The worker has received the object and not yet folded it
HeldByWorker(id) == worker.pc = "update" /\ worker.holding.id = id

\* How many of the conditions hold
Count(conditions) == Cardinality({ i \in DOMAIN conditions : conditions[i] })

----------------------------------------------------------------------------
(* Claims about the map's mutex (SpecLock) *)

\* C13: the map is changed only by update_metrics_map, under the mutex held
\* for the whole fold of one object: at most one party holds the lock at
\* any time, the map changes only in steps of the worker's fold while the
\* worker and nobody else holds the lock, and while a reader holds the lock
\* the map it reads is the map as a completed fold left it, never an object
\* folded in part.
C13_FoldUnderLock ==
    /\ [](Cardinality(lock) <= 1)
    /\ [](worker.pc = "folding" <=> WorkerThread \in lock)
    /\ [](\A r \in DOMAIN readers :
             /\ ~readers[r].torn
             /\ readers[r].pc = "locked" => (ReaderThread(r) \in lock /\ map = Committed))
    /\ [][ map' # map =>
              /\ worker.pc \in {"update", "folding"}
              /\ (lock \cup lock') = {WorkerThread}
              /\ readers' = readers
      ]_vars

\* A reader holds the lock between two folds: one object of two measurements
\* is folded whole, and the worker waits for the lock with the next object
C13_Witness ==
    /\ \E r \in DOMAIN readers : readers[r].pc = "locked" /\ lock = {ReaderThread(r)}
    /\ worker.pc = "update"
    /\ \E i \in DOMAIN fold_log :
          /\ Cardinality(DOMAIN fold_log[i].metrics.measurements) = 2
          /\ ~fold_log[i].panicked
    /\ map # EmptyFcn

----------------------------------------------------------------------------
(* Claims about the worker thread (SpecWorker) *)

\* The worker thread has ended: the loop returned, or a panic unwound it
WorkerEnded == worker.pc \in {"done", "panicked"}

\* C11: worker termination: once every producer is gone, the worker drains
\* what is queued and then its loop ends: it does not wait in recv forever.
\* (A worker thread that a panic ended counts as ended here.)
C11_WorkerTerminates == (producers = 0) ~> WorkerEnded

\* The objects update_metrics_map folded whole: the call returned
FoldedWholeIds == { fold_log[i].metrics.id : i \in { j \in DOMAIN fold_log : ~fold_log[j].panicked } }

\* C14: liveness of aggregation: with the worker scheduled, every object that
\* accept queued is eventually taken from the channel and folded whole into
\* the map (it can stay queued only if the worker thread has ended), and the
\* objects are folded in the order in which they were queued.
C14_QueuedEventuallyFolded ==
    /\ \A id \in 1..(MaxAccepts + 1) :
          (id \in QueuedIds) ~> (id \in FoldedWholeIds \/ (WorkerEnded /\ id \in QueuedIds))
    /\ [](\A i, j \in DOMAIN fold_log : i < j => fold_log[i].metrics.id < fold_log[j].metrics.id)
    /\ [](\A i, j \in DOMAIN channel : i < j => channel[i].id < channel[j].id)

====
